---- MODULE Spec2Model ----
(***************************************************************************)
(* A model of repost.py: one invocation of main() per run, the run-state  *)
(* document on disk surviving between runs.  External calls (login,       *)
(* identity resolution, source fetches, retraction, publish) are the      *)
(* model's nondeterminism; everything else is computed as the code        *)
(* computes it.                                                           *)
(*                                                                         *)
(* Representation.  An AT-URI "at://<did>/<collection>/<rkey>" is the      *)
(* record [did, coll, rkey]; Python's "" (a missing uri) is NoUri.  A     *)
(* timestamp is an integer count of 15-minute units; Python's None is     *)
(* NONE.  An ISO string is the record [iso |-> TRUE, ts |-> t], "" is     *)
(* NoIso.                                                                  *)
(*                                                                         *)
(* The source file ends inside the execution loop (line 664).  What       *)
(* follows it (the branch that records a published uri, the cut of the    *)
(* processed uris to state_max_uris, the call of save_json) is modelled   *)
(* from the specification: AddReposted, LastN, NewState.                  *)
(*                                                                         *)
(* Spec explores MaxRuns runs under the largest caps; SpecFirstRun        *)
(* explores one run under every configuration.                            *)
(***************************************************************************)
EXTENDS Integers, Sequences, FiniteSets, TLC

\* ---------------------------------------------------------------- bounds
\* Largest max_total_per_run, max_per_author_per_run a configuration holds,
\* the retention ceiling state_max_uris, and the number of runs explored.
MaxTotal == 4
MaxPerAuthor == 2
StateMaxUris == 2
MaxRuns == 2

\* -------------------------------------------------------- program constants
\* overlap_minutes = 15 and fallback_hours_first_run = 3, in 15-minute units.
OverlapUnits == 1
FallbackUnits == 12
\* The clock before the first run; run r happens at ClockStart + r.
ClockStart == 19

NONE == -1

\* ------------------------------------------------------------ identifiers
NoUri == [did |-> "", coll |-> "", rkey |-> ""]
AtUri(did, coll, rkey) == [did |-> did, coll |-> coll, rkey |-> rkey]
PostUri(did, rkey) == AtUri(did, "app.bsky.feed.post", rkey)

NoIso == [iso |-> FALSE, ts |-> 0]

\* str.lower() on the strings of this model.
Lower(s) == IF s = "Carol.Bsky.Social" THEN "carol.bsky.social" ELSE s

\* str.startswith("did:") on the actors of this model.
IsDid(a) == a \in {"did:a", "did:b", "did:c", "did:p", "did:l", "did:f",
                    "did:x", "did:y", "did:me"}

\* ---------------------------------------------------------------- posts
NoEmbed == [type |-> "", images |-> 0, media |-> "", mimages |-> 0]
Images(n) == [type |-> "app.bsky.embed.images", images |-> n, media |-> "", mimages |-> 0]
Video == [type |-> "app.bsky.embed.video", images |-> 0, media |-> "", mimages |-> 0]
External == [type |-> "app.bsky.embed.external", images |-> 0, media |-> "", mimages |-> 0]
Quote == [type |-> "app.bsky.embed.record", images |-> 0, media |-> "", mimages |-> 0]
QuoteWith(m, n) == [type |-> "app.bsky.embed.recordWithMedia", images |-> 0, media |-> m, mimages |-> n]

Post(uri, cid, did, handle, ts, reply, embed, text_tag, facet_tag) ==
    [uri |-> uri, cid |-> cid, did |-> did, handle |-> handle, indexedAt |-> ts,
     reply |-> reply, embed |-> embed, text_tag |-> text_tag, facet_tag |-> facet_tag]

NoPost == Post(NoUri, "", "", "", NONE, FALSE, NoEmbed, FALSE, FALSE)

\* The posts the service holds.  u1..u5 and pin are admissible; the x posts
\* each fail one check of the aggregator.
U1 == Post(PostUri("did:a", "r1"), "c1", "did:a", "alice.bsky.social", 20, FALSE, Images(1), TRUE, FALSE)
U2 == Post(PostUri("did:a", "r2"), "c2", "did:a", "alice.bsky.social", 19, FALSE, Video, FALSE, TRUE)
U3 == Post(PostUri("did:b", "r3"), "c3", "did:b", "bob.bsky.social", 19, FALSE, QuoteWith("app.bsky.embed.images", 2), TRUE, FALSE)
U4 == Post(PostUri("did:x", "r4"), "c4", "", "", 18, FALSE, Images(2), TRUE, FALSE)
U5 == Post(PostUri("did:y", "r5"), "c5", "", "", 18, FALSE, QuoteWith("app.bsky.embed.video", 0), TRUE, FALSE)
U6 == Post(PostUri("did:x", "r6"), "c6", "", "", 18, FALSE, Video, TRUE, FALSE)
PinPost == Post(PostUri("did:p", "pin"), "cp", "did:p", "pinner.bsky.social", 19, FALSE, Video, FALSE, FALSE)
XRepost == Post(PostUri("did:b", "x1"), "cx1", "did:b", "bob.bsky.social", 20, FALSE, Video, TRUE, FALSE)
XNoTag == Post(PostUri("did:b", "x2"), "cx2", "did:b", "bob.bsky.social", 20, FALSE, Video, FALSE, FALSE)
XBlocked == Post(PostUri("did:c", "x3"), "cx3", "did:c", "Carol.Bsky.Social", 20, FALSE, Video, TRUE, FALSE)
XReply == Post(PostUri("did:b", "x4"), "cx4", "did:b", "bob.bsky.social", 20, TRUE, Video, TRUE, FALSE)
XLink == Post(PostUri("did:b", "x5"), "cx5", "did:b", "bob.bsky.social", 20, FALSE, External, TRUE, FALSE)
XNoCid == Post(PostUri("did:b", "x6"), "", "did:b", "bob.bsky.social", 20, FALSE, Video, TRUE, FALSE)
XNoTime == Post(PostUri("did:b", "x7"), "cx7", "did:b", "bob.bsky.social", 0, FALSE, Video, TRUE, FALSE)
XOld == Post(PostUri("did:b", "x8"), "cx8", "did:b", "bob.bsky.social", 5, FALSE, Images(1), TRUE, FALSE)
XEmptyImages == Post(PostUri("did:b", "x9"), "cx9", "did:b", "bob.bsky.social", 20, FALSE, Images(0), TRUE, FALSE)
XQuote == Post(PostUri("did:b", "xa"), "cxa", "did:b", "bob.bsky.social", 20, FALSE, Quote, TRUE, FALSE)

\* A feed/list item: the post and its context; ctx is "none" (no context: tag
\* search, single post), "plain" (a feed item with no repost reason) or "repost".
Item(p, ctx) == [post |-> p, ctx |-> ctx]

FeedUri == AtUri("did:f", "app.bsky.feed.generator", "hot")
ListUri == AtUri("did:l", "app.bsky.graph.list", "mine")
PinUri == PostUri("did:p", "pin")
\* The same post named by its author's handle, as an at:// reference may do.
PinUriByHandle == PostUri("pinner.bsky.social", "pin")

FeedContent == << Item(XRepost, "repost"), Item(U2, "plain"), Item(U1, "plain"), Item(XNoTag, "plain") >>
ListContent == << Item(U3, "plain"), Item(U2, "plain"), Item(XBlocked, "plain"), Item(XReply, "plain") >>
TagContent == << Item(PinPost, "none"), Item(U5, "none"), Item(U4, "none"), Item(U6, "none"), Item(XLink, "none"),
                 Item(XNoCid, "none"), Item(XNoTime, "none"), Item(XOld, "none"),
                 Item(XEmptyImages, "none"), Item(XQuote, "none") >>

AllPosts == {U1, U2, U3, U4, U5, U6, PinPost, XRepost, XNoTag, XBlocked, XReply, XLink, XNoCid,
             XNoTime, XOld, XEmptyImages, XQuote}

\* ------------------------------------------------------- sequence helpers
RECURSIVE SeqToSet(_)
SeqToSet(s) == IF s = <<>> THEN {} ELSE {Head(s)} \cup SeqToSet(Tail(s))

RECURSIVE Count(_, _)
Count(s, a) ==
    IF s = <<>> THEN 0 ELSE (IF Head(s) = a THEN 1 ELSE 0) + Count(Tail(s), a)

Max(a, b) == IF a >= b THEN a ELSE b
Min(a, b) == IF a <= b THEN a ELSE b

\* Python's s[:n] and s[n:] for a list s (n may be negative).
SliceTo(s, n) ==
    LET k == IF n >= 0 THEN Min(n, Len(s)) ELSE Max(0, Len(s) + n)
    IN SubSeq(s, 1, k)
SliceFrom(s, n) ==
    LET k == IF n >= 0 THEN Min(n, Len(s)) ELSE Max(0, Len(s) + n)
    IN SubSeq(s, k + 1, Len(s))
\* Python's s[-n:] for n > 0.
LastN(s, n) == SubSeq(s, Max(0, Len(s) - n) + 1, Len(s))

\* ------------------------------------------------------ JSON and time helpers
\* The run-state document.  status is "missing" (no file), "ok" (a complete
\* JSON document), "partial" (a file opened for writing and not yet
\* completely written: unparseable) or "stale" (a temporary file a killed
\* run left behind).
NoDoc == [status |-> "missing", reposted_uris |-> <<>>, single_repost_record_uri |-> NoUri,
          last_run_iso |-> NoIso]
Doc(uris, handle, iso) ==
    [status |-> "ok", reposted_uris |-> uris, single_repost_record_uri |-> handle,
     last_run_iso |-> iso]
PartialDoc == [NoDoc EXCEPT !.status = "partial"]
StaleDoc == [NoDoc EXCEPT !.status = "stale"]

DefaultState == Doc(<<>>, NoUri, NoIso)

load_json(file, default) == IF file.status = "ok" THEN file ELSE default

iso_to_ts(iso_str) == IF ~iso_str.iso THEN NONE ELSE iso_str.ts

ts_to_iso(ts) == [iso |-> TRUE, ts |-> ts]

parse_created_at(post) == IF post.indexedAt <= 0 THEN 0 ELSE post.indexedAt

within_window(post, start_ts, end_ts) ==
    LET created == parse_created_at(post)
    IN IF created <= 0 THEN FALSE ELSE start_ts <= created /\ created <= end_ts

\* ------------------------------------------------------------ blocklist
\* blocked_users of the configuration: one profile URL, of Carol.
normalize_blocked_users == {Lower("Carol.Bsky.Social")}

is_blocked(post, blocked) == Lower(post.did) \in blocked \/ Lower(post.handle) \in blocked

\* -------------------------------------------------------------- filters
is_reply(post) == post.reply

embed_is_media_only(post) ==
    LET embed == post.embed
        et == embed.type
    IN IF embed = NoEmbed THEN FALSE
       ELSE IF et = "app.bsky.embed.images" THEN embed.images > 0
       ELSE IF et = "app.bsky.embed.video" THEN TRUE
       ELSE IF et = "app.bsky.embed.external" THEN FALSE
       ELSE IF et = "app.bsky.embed.record" THEN FALSE
       ELSE IF et = "app.bsky.embed.recordWithMedia"
            THEN (IF embed.media = "app.bsky.embed.images" THEN embed.mimages > 0
                  ELSE IF embed.media = "app.bsky.embed.video" THEN TRUE
                  ELSE FALSE)
       ELSE FALSE

is_repost_reason(ctx) == ctx = "repost"

has_required_milf_tag(post) == post.text_tag \/ post.facet_tag

passes_content_filters(post, ctx) ==
    IF ctx # "none" /\ is_repost_reason(ctx) THEN FALSE
    ELSE IF is_reply(post) THEN FALSE
    ELSE IF ctx # "none" /\ ~has_required_milf_tag(post) THEN FALSE
    ELSE IF ~embed_is_media_only(post) THEN FALSE
    ELSE TRUE

get_author_did(post) == post.did
get_uri(post) == post.uri
get_cid(post) == post.cid

\* -------------------------------------------------- identifier normalizer
\* A configured reference: form "at" (it starts with at://, uri is the text),
\* "url" (a bsky.app/profile/<actor>/<seg>/<rkey> URL) or "other".
AtRef(uri) == [form |-> "at", uri |-> uri, actor |-> "", seg |-> "", rkey |-> ""]
UrlRef(actor, seg, rkey) == [form |-> "url", uri |-> NoUri, actor |-> actor, seg |-> seg, rkey |-> rkey]
OtherRef == [form |-> "other", uri |-> NoUri, actor |-> "", seg |-> "", rkey |-> ""]
NoRef == [form |-> "", uri |-> NoUri, actor |-> "", seg |-> "", rkey |-> ""]

\* The identity service's answer for a handle.
DidOf(handle) ==
    IF handle = "feedgen.bsky.social" THEN "did:f"
    ELSE IF handle = "pinner.bsky.social" THEN "did:p"
    ELSE ""

\* resolve_actor_to_did under the lookup's outcome: "did" (resolved), "empty"
\* (an answer with no did) or "raise" (the client raises).
resolve_actor_to_did(actor, outcome) ==
    IF IsDid(Lower(actor)) THEN [raised |-> FALSE, did |-> actor]
    ELSE IF outcome = "raise" THEN [raised |-> TRUE, did |-> ""]
    ELSE IF outcome = "empty" THEN [raised |-> FALSE, did |-> ""]
    ELSE [raised |-> FALSE, did |-> DidOf(actor)]

_extract_actor_and_rkey(ref, segment) ==
    IF ref.form # "url" THEN [ok |-> FALSE, actor |-> "", rkey |-> ""]
    ELSE IF Lower(ref.seg) # segment THEN [ok |-> FALSE, actor |-> "", rkey |-> ""]
    ELSE [ok |-> TRUE, actor |-> ref.actor, rkey |-> ref.rkey]

\* normalize_feed_uris / normalize_list_uris: the loop over the configured
\* values; an exception of the lookup leaves the loop (and main).
RECURSIVE normalize_uris(_, _, _, _)
normalize_uris(values, segment, coll, outcome) ==
    IF values = <<>> THEN [raised |-> FALSE, out |-> <<>>]
    ELSE LET v == Head(values)
             rest == normalize_uris(Tail(values), segment, coll, outcome)
             parsed == _extract_actor_and_rkey(v, segment)
             res == resolve_actor_to_did(parsed.actor, outcome)
         IN IF v.form = "at"
            THEN [raised |-> rest.raised, out |-> <<v.uri>> \o rest.out]
            ELSE IF parsed.ok
            THEN (IF res.raised THEN [raised |-> TRUE, out |-> <<>>]
                  ELSE IF res.did # ""
                  THEN [raised |-> rest.raised, out |-> <<AtUri(res.did, coll, parsed.rkey)>> \o rest.out]
                  ELSE rest)
            ELSE rest

normalize_feed_uris(values, outcome) ==
    normalize_uris(values, "feed", "app.bsky.feed.generator", outcome)

normalize_list_uris(values, outcome) ==
    normalize_uris(values, "lists", "app.bsky.graph.list", outcome)

\* normalize_post_uri: an exception of the lookup is caught and gives "".
normalize_post_uri(value, outcome) ==
    IF value = NoRef THEN NoUri
    ELSE IF value.form = "at" THEN value.uri
    ELSE IF value.form = "url" /\ Lower(value.seg) = "post"
    THEN LET res == resolve_actor_to_did(value.actor, outcome)
         IN IF ~res.raised /\ res.did # ""
            THEN PostUri(res.did, value.rkey)
            ELSE NoUri
    ELSE NoUri

\* ------------------------------------------------------------- fetchers
\* What each source returns when its call succeeds; a failed call raises and
\* main's loop adds nothing for that source.
fetch_feed_items(feed_uri) == IF feed_uri = FeedUri THEN FeedContent ELSE <<>>
fetch_list_items(list_uri) == IF list_uri = ListUri THEN ListContent ELSE <<>>
fetch_hashtag_posts(tag) == IF tag = "" THEN <<>> ELSE TagContent

\* fetch_single_post: the post the service holds under uri, or NoPost (None)
\* when there is none or the call fails.
\* fetch_single_post under the get_posts call's outcome (found: the call
\* returned the post held under the uri asked for; otherwise an empty answer
\* or an exception).
fetch_single_post(uri, found) ==
    IF found /\ \E q \in AllPosts : q.uri = uri
    THEN CHOOSE q \in AllPosts : q.uri = uri
    ELSE NoPost

extract_rkey_from_at_uri(at_uri) == at_uri.rkey

\* try_unrepost_by_record_uri under the delete call's outcome.
try_unrepost_by_record_uri(repost_record_uri, deleted) ==
    IF repost_record_uri = NoUri THEN FALSE
    ELSE IF extract_rkey_from_at_uri(repost_record_uri) = "" THEN FALSE
    ELSE deleted

\* The record uri a successful repost.create returns in run r for queue entry i.
RepostRecord(r, i) == AtUri("did:me", "app.bsky.feed.repost", ToString(10 * r + i))

\* What repost.create does: it returns a record with its uri, it returns a
\* response with no uri, or it raises.
CreateOutcomes == {"created", "nouri", "failed"}

\* try_repost under the create call's outcome: (success, repost_record_uri).
try_repost(r, i, outcome) ==
    IF outcome = "created" THEN [ok |-> TRUE, repost_record_uri |-> RepostRecord(r, i)]
    ELSE IF outcome = "nouri" THEN [ok |-> TRUE, repost_record_uri |-> NoUri]
    ELSE [ok |-> FALSE, repost_record_uri |-> NoUri]

\* ---------------------------------------------- main: collection (step 1)
RECURSIVE CollectFrom(_, _, _)
CollectFrom(sources, kind, ok) ==
    IF sources = <<>> \/ ~ok THEN <<>>
    ELSE (IF kind = "feed" THEN fetch_feed_items(Head(sources))
          ELSE IF kind = "list" THEN fetch_list_items(Head(sources))
          ELSE fetch_hashtag_posts(Head(sources)))
         \o CollectFrom(Tail(sources), kind, ok)

\* ------------------------------- main: filters and de-duplication (step 2)
\* A variant that forgets the history check.
AlreadyReposted_never(uri, reposted_uris) == FALSE

AlreadyReposted(uri, reposted_uris) == uri \in reposted_uris

Survives(item, reposted_uris, blocked_users, start_ts, end_ts) ==
    LET p == item.post
    IN IF get_uri(p) = NoUri \/ get_cid(p) = "" THEN FALSE
       ELSE IF ~within_window(p, start_ts, end_ts) THEN FALSE
       ELSE IF AlreadyReposted(get_uri(p), reposted_uris) THEN FALSE
       ELSE IF blocked_users # {} /\ is_blocked(p, blocked_users) THEN FALSE
       ELSE IF ~passes_content_filters(p, item.ctx) THEN FALSE
       ELSE TRUE

\* by_uri[uri] = p on an insertion-ordered dict, kept as the sequence of its
\* values: a key already present keeps its place and takes the new value.
DictPut(by_uri, p) ==
    IF \E k \in 1..Len(by_uri) : by_uri[k].uri = p.uri
    THEN [k \in 1..Len(by_uri) |-> IF by_uri[k].uri = p.uri THEN p ELSE by_uri[k]]
    ELSE Append(by_uri, p)

RECURSIVE Aggregate(_, _, _, _, _, _)
Aggregate(collected, by_uri, reposted_uris, blocked_users, start_ts, end_ts) ==
    IF collected = <<>> THEN by_uri
    ELSE Aggregate(Tail(collected),
                   IF Survives(Head(collected), reposted_uris, blocked_users, start_ts, end_ts)
                   THEN DictPut(by_uri, Head(collected).post)
                   ELSE by_uri,
                   reposted_uris, blocked_users, start_ts, end_ts)

\* list.sort(key=parse_created_at, reverse=True): stable, equal keys keep
\* their order.
InsertDesc(sorted, p) ==
    LET after == {k \in 1..Len(sorted) : parse_created_at(sorted[k]) >= parse_created_at(p)}
        n == IF after = {} THEN 0 ELSE CHOOSE k \in after : \A j \in after : j <= k
    IN SubSeq(sorted, 1, n) \o <<p>> \o SubSeq(sorted, n + 1, Len(sorted))

RECURSIVE SortDesc(_, _)
SortDesc(rest, sorted) ==
    IF rest = <<>> THEN sorted ELSE SortDesc(Tail(rest), InsertDesc(sorted, Head(rest)))

Candidates(collected, reposted_uris, blocked_users, start_ts, end_ts) ==
    SortDesc(Aggregate(collected, <<>>, reposted_uris, blocked_users, start_ts, end_ts), <<>>)

\* ------------------------------------------ main: per-author cap (step 3)
Authors == {q.did : q \in AllPosts}

\* A variant with the sign of the reservation slipped.
take_limit_plus(max_total) == Max(0, max_total + 1)

take_limit(max_total) == Max(0, max_total - 1)

\* A variant off by one.
AuthorCapReached_gt(author, author_count, max_per_author) ==
    author # "" /\ author_count[author] > max_per_author

AuthorCapReached(author, author_count, max_per_author) ==
    author # "" /\ author_count[author] >= max_per_author

\* The loop over the candidates, stopping at limit entries.
RECURSIVE Limit(_, _, _, _, _)
Limit(cands, lim, author_count, limit, max_per_author) ==
    IF cands = <<>> THEN lim
    ELSE IF Len(lim) >= limit THEN lim
    ELSE LET p == Head(cands)
             author == get_author_did(p)
         IN IF AuthorCapReached(author, author_count, max_per_author)
            THEN Limit(Tail(cands), lim, author_count, limit, max_per_author)
            ELSE Limit(Tail(cands), Append(lim, p),
                       IF author # "" THEN [author_count EXCEPT ![author] = @ + 1]
                       ELSE author_count,
                       limit, max_per_author)

Limited(cands, max_total, max_per_author) ==
    Limit(cands, <<>>, [a \in Authors |-> 0], take_limit(max_total), max_per_author)

\* -------------------------------------------- main: single post (step 4)
\* The single post after the blocklist and content checks, NoPost if dropped.
ValidateSingle(post, blocked_users) ==
    IF post = NoPost THEN NoPost
    ELSE IF blocked_users # {} /\ is_blocked(post, blocked_users) THEN NoPost
    ELSE IF ~passes_content_filters(post, "none") THEN NoPost
    ELSE post

\* A variant that appends.
InjectIndex_end(queue) == Len(queue)

InjectIndex(queue) == IF 2 > Len(queue) THEN Len(queue) ELSE 2

Truncate(queue, max_total) == SliceTo(queue, max_total)

Inject(queue, post, max_total) ==
    IF post # NoPost /\ get_uri(post) # NoUri /\ get_cid(post) # ""
    THEN LET idx == InjectIndex(queue)
         IN Truncate(SliceTo(queue, idx) \o <<post>> \o SliceFrom(queue, idx), max_total)
    ELSE queue

\* ------------------------------------------------ main: execution (step 5)
IsSingle(uri, single_uri) == single_uri # NoUri /\ uri = single_uri

\* ------------------------------------------------------------ the program
\* The configuration document: the sources are fixed, the caps and the single
\* post reference vary.
RawFeeds == << UrlRef("feedgen.bsky.social", "feed", "hot"), OtherRef >>
RawLists == << AtRef(ListUri), UrlRef("did:l", "feed", "mine") >>
Hashtags == << "milf" >>

SinglePostRefs == {NoRef, AtRef(PinUri), AtRef(PinUriByHandle),
                   UrlRef("pinner.bsky.social", "post", "pin")}

Configs == [max_total : 0..MaxTotal, max_per_author : 0..MaxPerAuthor,
            single_post_uri : SinglePostRefs]

Outcomes == {"did", "empty", "raise"}

VARIABLES
    cfg,                       \* config.json
    disk,                      \* state.json
    tmpfile,                   \* state.json.tmp
    run,                       \* runs started so far
    pc,                        \* where main() is
    exit,                      \* how the last run ended ("none" while it runs)
    state,                     \* the loaded run-state document
    reposted_uris,
    single_repost_record_uri,
    last_run_ts,
    feeds, lists, single_post_uri,
    start_ts, end_ts,
    candidates, limited, final_queue, single_post,
    i,                         \* the execution loop's index
    newly_reposted,
    retracted,                 \* history: this run's retraction outcome
    sources,                   \* history: which of feed, list, tag search answered
    fetched,                   \* history: this run's single-post fetch outcome
    writes,                    \* history: replacements of state.json this run
    repost_result,             \* history: what the run's last try_repost returned
    published                  \* history: times U1 was published as a non-single post

vars == << cfg, disk, tmpfile, run, pc, exit, state, reposted_uris, single_repost_record_uri,
           last_run_ts, feeds, lists, single_post_uri, start_ts, end_ts, candidates, limited,
           final_queue, single_post, i, newly_reposted, retracted, sources, fetched, writes,
           repost_result, published >>

memory == << state, reposted_uris, single_repost_record_uri, last_run_ts, feeds, lists,
             single_post_uri, start_ts, end_ts, candidates, limited, final_queue,
             single_post, i, newly_reposted >>

history == << retracted, sources, fetched, writes, repost_result, published >>

now_ts == ClockStart + run

FreshMemory ==
    /\ state = DefaultState
    /\ reposted_uris = {}
    /\ single_repost_record_uri = NoUri
    /\ last_run_ts = NONE
    /\ feeds = <<>>
    /\ lists = <<>>
    /\ single_post_uri = NoUri
    /\ start_ts = 0
    /\ end_ts = 0
    /\ candidates = <<>>
    /\ limited = <<>>
    /\ final_queue = <<>>
    /\ single_post = NoPost
    /\ i = 0
    /\ newly_reposted = <<>>

\* Before the first run: no state.json.
Fresh ==
    /\ disk = NoDoc
    /\ tmpfile = NoDoc
    /\ run = 0
    /\ pc = "idle"
    /\ exit = "none"
    /\ FreshMemory
    /\ retracted = "no"
    /\ sources = << FALSE, FALSE, FALSE >>
    /\ fetched = "no"
    /\ writes = 0
    /\ repost_result = "none"
    /\ published = 0

\* Several runs, under the configurations with the largest caps.
Init ==
    /\ cfg \in {c \in Configs : c.max_total = MaxTotal /\ c.max_per_author = MaxPerAuthor}
    /\ Fresh

\* One run, under every configuration.
InitAny ==
    /\ cfg \in Configs
    /\ Fresh

\* main() up to the login call: the configuration and the run state are read.
StartRun(limit) ==
    /\ pc = "idle"
    /\ run < limit
    /\ run' = run + 1
    /\ pc' = "login"
    /\ LET loaded == load_json(disk, DefaultState)
       IN /\ state' = loaded
          /\ reposted_uris' = SeqToSet(loaded.reposted_uris)
          /\ single_repost_record_uri' = loaded.single_repost_record_uri
          /\ last_run_ts' = iso_to_ts(loaded.last_run_iso)
    /\ feeds' = <<>>
    /\ lists' = <<>>
    /\ single_post_uri' = NoUri
    /\ start_ts' = 0
    /\ end_ts' = 0
    /\ candidates' = <<>>
    /\ limited' = <<>>
    /\ final_queue' = <<>>
    /\ single_post' = NoPost
    /\ i' = 0
    /\ newly_reposted' = <<>>
    /\ retracted' = "no"
    /\ sources' = << FALSE, FALSE, FALSE >>
    /\ fetched' = "no"
    /\ writes' = 0
    /\ repost_result' = "none"
    /\ exit' = "none"
    /\ UNCHANGED << cfg, disk, tmpfile, published >>

\* client.login raises: the run ends before any side effect.
LoginFail ==
    /\ pc = "login"
    /\ pc' = "idle"
    /\ exit' = "login"
    /\ UNCHANGED << cfg, disk, tmpfile, run, memory, history >>

\* client.login succeeds; the references are normalized and the window is
\* computed.  An exception of the identity lookup inside normalize_feed_uris
\* or normalize_list_uris is not caught and ends main().
Normalize(rf, rp) ==
    /\ pc = "login"
    /\ LET f == normalize_feed_uris(RawFeeds, rf)
           l == normalize_list_uris(RawLists, "did")
       IN IF f.raised \/ l.raised
          THEN /\ pc' = "idle"
               /\ exit' = "exception"
               /\ UNCHANGED << feeds, lists, single_post_uri, start_ts, end_ts >>
          ELSE /\ pc' = "retract"
               /\ exit' = exit
               /\ feeds' = f.out
               /\ lists' = l.out
               /\ single_post_uri' = IF cfg.single_post_uri # NoRef
                                     THEN normalize_post_uri(cfg.single_post_uri, rp)
                                     ELSE NoUri
               /\ end_ts' = now_ts
               /\ start_ts' = IF last_run_ts = NONE
                              THEN now_ts - FallbackUnits
                              ELSE last_run_ts - OverlapUnits
    /\ UNCHANGED << cfg, disk, tmpfile, run, state, reposted_uris, single_repost_record_uri,
                    last_run_ts, candidates, limited, final_queue, single_post, i,
                    newly_reposted, history >>

\* Step 0: the previous run's single repost is deleted, if a record is held.
HoldsRecord(record_uri) == record_uri # NoUri

Retract(deleted) ==
    /\ pc = "retract"
    /\ pc' = "collect"
    /\ IF HoldsRecord(single_repost_record_uri)
       THEN IF try_unrepost_by_record_uri(single_repost_record_uri, deleted)
            THEN /\ single_repost_record_uri' = NoUri
                 /\ retracted' = "ok"
            ELSE /\ single_repost_record_uri' = single_repost_record_uri
                 /\ retracted' = "failed"
       ELSE /\ single_repost_record_uri' = single_repost_record_uri
            /\ retracted' = "none"
    /\ UNCHANGED << cfg, disk, tmpfile, run, exit, state, reposted_uris, last_run_ts, feeds,
                    lists, single_post_uri, start_ts, end_ts, candidates, limited,
                    final_queue, single_post, i, newly_reposted, sources, fetched, writes,
                    repost_result, published >>

\* Steps 1 to 3: every source is fetched (a failed fetch adds nothing), the
\* items are filtered and de-duplicated, sorted, and capped per author.
Collect(feed_ok, list_ok, tag_ok) ==
    /\ pc = "collect"
    /\ pc' = "single"
    /\ LET collected == CollectFrom(feeds, "feed", feed_ok)
                        \o CollectFrom(lists, "list", list_ok)
                        \o CollectFrom(Hashtags, "tag", tag_ok)
           sorted == Candidates(collected, reposted_uris, normalize_blocked_users,
                                start_ts, end_ts)
       IN /\ candidates' = sorted
          /\ limited' = Limited(sorted, cfg.max_total, cfg.max_per_author)
    /\ sources' = << feed_ok /\ feeds # <<>>, list_ok /\ lists # <<>>, tag_ok >>
    /\ UNCHANGED << cfg, disk, tmpfile, run, exit, state, reposted_uris,
                    single_repost_record_uri, last_run_ts, feeds, lists, single_post_uri,
                    start_ts, end_ts, final_queue, single_post, i, newly_reposted,
                    retracted, fetched, writes, repost_result,
                    published >>

\* Step 4: the single post is fetched, validated and injected.
Single(found) ==
    /\ pc = "single"
    /\ LET got == IF single_post_uri # NoUri
                  THEN fetch_single_post(single_post_uri, found)
                  ELSE NoPost
           valid == ValidateSingle(got, normalize_blocked_users)
           queue == Inject(limited, valid, cfg.max_total)
       IN /\ single_post' = valid
          /\ final_queue' = queue
          /\ fetched' = IF single_post_uri = NoUri THEN "none"
                        ELSE IF got = NoPost THEN "notfound" ELSE "found"
          /\ pc' = IF queue = <<>> THEN "save" ELSE "exec"
    /\ i' = 1
    /\ UNCHANGED << cfg, disk, tmpfile, run, exit, state, reposted_uris,
                    single_repost_record_uri, last_run_ts, feeds, lists, single_post_uri,
                    start_ts, end_ts, candidates, limited, newly_reposted, retracted,
                    sources, writes, repost_result, published >>

\* A variant that keeps the record of any post.
StoreRecord_any(is_single, repost_record_uri, held) ==
    IF repost_record_uri # NoUri THEN repost_record_uri ELSE held

\* Step 5, on success: the single post's new repost record is kept.
StoreRecord(is_single, repost_record_uri, held) ==
    IF is_single /\ repost_record_uri # NoUri THEN repost_record_uri ELSE held

\* Step 5, on success, any other post: its uri joins reposted_uris.
AddReposted(is_single, uri, uris) == IF is_single THEN uris ELSE uris \cup {uri}

\* Step 5: one turn of the execution loop.
Repost(outcome) ==
    /\ pc = "exec"
    /\ i <= Len(final_queue)
    /\ LET p == final_queue[i]
           uri == get_uri(p)
           cid == get_cid(p)
           is_single == IsSingle(uri, single_post_uri)
           r == try_repost(run, i, outcome)
       IN IF uri = NoUri \/ cid = ""
          THEN /\ repost_result' = "none"
               /\ UNCHANGED << reposted_uris, single_repost_record_uri, newly_reposted,
                               published >>
          ELSE IF r.ok
          THEN /\ single_repost_record_uri' =
                      StoreRecord(is_single, r.repost_record_uri, single_repost_record_uri)
               /\ reposted_uris' = AddReposted(is_single, uri, reposted_uris)
               /\ newly_reposted' = IF is_single THEN newly_reposted
                                    ELSE Append(newly_reposted, uri)
               /\ published' = IF ~is_single /\ uri = U1.uri
                                THEN Min(published + 1, 2) ELSE published
               /\ repost_result' = outcome
          ELSE /\ repost_result' = outcome
               /\ UNCHANGED << reposted_uris, single_repost_record_uri, newly_reposted,
                               published >>
    /\ i' = i + 1
    /\ pc' = IF i = Len(final_queue) THEN "save" ELSE "exec"
    /\ UNCHANGED << cfg, disk, tmpfile, run, exit, state, last_run_ts, feeds, lists,
                    single_post_uri, start_ts, end_ts, candidates, limited, final_queue,
                    single_post, retracted, sources, fetched, writes >>

\* The document main() saves at the end of a run: the processed uris, oldest
\* first and cut to the last state_max_uris, the record held, the run's time.
NewState(old, newly, record_uri, ts) ==
    Doc(LastN(old.reposted_uris \o newly, StateMaxUris), record_uri, ts_to_iso(ts))

\* A variant that writes state.json in place.
SaveTarget_path == "path"

\* save_json: the file that is opened for writing.
SaveTarget == "tmp"

\* save_json, open(tmp, "w"): the file exists and is empty.
SaveOpen ==
    /\ pc = "save"
    /\ pc' = "dump"
    /\ IF SaveTarget = "tmp"
       THEN tmpfile' = PartialDoc /\ disk' = disk
       ELSE disk' = PartialDoc /\ tmpfile' = tmpfile
    /\ UNCHANGED << cfg, run, exit, memory, history >>

\* save_json, json.dump and close: the file holds the whole document.
SaveDump ==
    /\ pc = "dump"
    /\ pc' = "replace"
    /\ LET doc == NewState(state, newly_reposted, single_repost_record_uri, end_ts)
       IN IF SaveTarget = "tmp"
          THEN tmpfile' = doc /\ disk' = disk
          ELSE disk' = doc /\ tmpfile' = tmpfile
    /\ UNCHANGED << cfg, run, exit, memory, history >>

\* save_json, os.replace(tmp, path); main() returns.
SaveReplace ==
    /\ pc = "replace"
    /\ pc' = "idle"
    /\ exit' = "ok"
    /\ IF SaveTarget = "tmp"
       THEN disk' = tmpfile /\ tmpfile' = NoDoc
       ELSE UNCHANGED << disk, tmpfile >>
    /\ writes' = writes + 1
    /\ UNCHANGED << cfg, run, memory, retracted, sources, fetched, repost_result,
                    published >>

\* The process is killed (or the machine stops) anywhere in a run: the memory
\* is gone, state.json is as it was.  A temporary file left behind is never
\* read (the next save truncates it), so its content is not kept.
Crash ==
    /\ pc # "idle"
    /\ pc' = "idle"
    /\ exit' = "killed"
    /\ state' = DefaultState
    /\ reposted_uris' = {}
    /\ single_repost_record_uri' = NoUri
    /\ last_run_ts' = NONE
    /\ feeds' = <<>>
    /\ lists' = <<>>
    /\ single_post_uri' = NoUri
    /\ start_ts' = 0
    /\ end_ts' = 0
    /\ candidates' = <<>>
    /\ limited' = <<>>
    /\ final_queue' = <<>>
    /\ single_post' = NoPost
    /\ i' = 0
    /\ newly_reposted' = <<>>
    /\ retracted' = "no"
    /\ sources' = << FALSE, FALSE, FALSE >>
    /\ fetched' = "no"
    /\ repost_result' = "none"
    /\ tmpfile' = IF tmpfile = NoDoc THEN NoDoc ELSE StaleDoc
    /\ UNCHANGED << cfg, disk, run, writes, published >>

Next ==
    \/ StartRun(MaxRuns)
    \/ LoginFail
    \/ \E rf \in Outcomes, rp \in Outcomes : Normalize(rf, rp)
    \/ \E deleted \in BOOLEAN : Retract(deleted)
    \/ \E feed_ok \in BOOLEAN, list_ok \in BOOLEAN, tag_ok \in BOOLEAN :
           Collect(feed_ok, list_ok, tag_ok)
    \/ \E found \in BOOLEAN : Single(found)
    \/ \E outcome \in CreateOutcomes : Repost(outcome)
    \/ SaveOpen
    \/ SaveDump
    \/ SaveReplace
    \/ Crash

Spec == Init /\ [][Next]_vars

NextFirst ==
    \/ StartRun(1)
    \/ LoginFail
    \/ \E rf \in Outcomes, rp \in Outcomes : Normalize(rf, rp)
    \/ \E deleted \in BOOLEAN : Retract(deleted)
    \/ \E feed_ok \in BOOLEAN, list_ok \in BOOLEAN, tag_ok \in BOOLEAN :
           Collect(feed_ok, list_ok, tag_ok)
    \/ \E found \in BOOLEAN : Single(found)
    \/ \E outcome \in CreateOutcomes : Repost(outcome)
    \/ SaveOpen
    \/ SaveDump
    \/ SaveReplace
    \/ Crash

SpecFirstRun == InitAny /\ [][NextFirst]_vars

\* ================================================================ claims
\* The queue of the run has been built (and, at idle after a completed run,
\* is still in memory).
Built == pc \in {"exec", "save", "dump", "replace"} \/ (pc = "idle" /\ exit = "ok")

Completed == pc = "idle" /\ exit = "ok"

PinnedConfigured == cfg.single_post_uri # NoRef

\* The single post was injected and is in the final queue.
Injected == Built /\ single_post # NoPost /\ Len(final_queue) = Len(limited) + 1

\* The final queue without the injected entry.
OrganicQueue ==
    IF Injected
    THEN LET k == Min(2, Len(limited))
         IN SubSeq(final_queue, 1, k) \o SubSeq(final_queue, k + 2, Len(final_queue))
    ELSE final_queue

NonPinnedFrom(a) == Cardinality({k \in 1..Len(OrganicQueue) : OrganicQueue[k].did = a})

\* The candidates the per-author cap alone admits, up to n of them.
Admitted(n) == Limit(candidates, <<>>, [a \in Authors |-> 0], n, cfg.max_per_author)

Loaded == SeqToSet(state.reposted_uris)

\* ---------------------------------------------------------------- C1
\* C1 as stated, of the item U1 (which no configuration names as the pinned
\* item): it is never published a second time, in any later run.
C1_NeverPublishedAgain == published <= 1

\* C1, amended: every identifier of the processed_identifiers a run loaded is
\* rejected by the Aggregator (no candidate of the run is among them), and a
\* run that completes persists each identifier it published as a non-pinned
\* item unless the retention ceiling evicts it.
C1_ProcessedNeverCandidates ==
    /\ (Built \/ pc = "single") =>
           \A k \in 1..Len(candidates) : candidates[k].uri \notin Loaded
    /\ Completed =>
           \A k \in 1..Len(newly_reposted) :
               \/ newly_reposted[k] \in SeqToSet(disk.reposted_uris)
               \/ Len(newly_reposted) - k >= StateMaxUris

\* A second run in which the feed returned U1, inside the window, and U1 was
\* in the loaded processed_identifiers.
C1_Witness ==
    /\ run = 2 /\ pc = "exec"
    /\ U1.uri \in Loaded
    /\ sources[1]
    /\ candidates # <<>>

\* ---------------------------------------------------------------- C2
\* C2: the final queue is never longer than total_cap, and with the pinned
\* item in it at most total_cap - 1 of its entries are organic.
C2_QueueWithinTotalCap ==
    Built => /\ Len(final_queue) <= cfg.max_total
             /\ Injected => Len(OrganicQueue) <= cfg.max_total - 1

\* A full queue holding the pinned item and total_cap - 1 organic entries.
C2_Witness ==
    /\ Built /\ Injected
    /\ cfg.max_total >= 3
    /\ Len(final_queue) = cfg.max_total
    /\ Len(candidates) > Len(limited)

\* ---------------------------------------------------------------- C3
\* C3 as stated: no author, the missing or empty author identifier included,
\* has more than per_author_cap non-pinned items in the final queue.
C3_EveryAuthorCapped ==
    Built => \A a \in Authors : NonPinnedFrom(a) <= cfg.max_per_author

\* C3, amended: no author with a non-empty identifier has more than
\* per_author_cap non-pinned items in the final queue; items with no author
\* identifier are not counted and not capped.
C3_NamedAuthorsCapped ==
    Built => \A a \in Authors \ {""} : NonPinnedFrom(a) <= cfg.max_per_author

\* An author at the cap, with a further candidate left out by the cap alone.
C3_Witness ==
    /\ Built
    /\ cfg.max_per_author >= 1
    /\ NonPinnedFrom("did:a") = cfg.max_per_author
    /\ Len(limited) < Max(0, cfg.max_total - 1)
    /\ \E k \in 1..Len(candidates) :
           /\ candidates[k].did = "did:a"
           /\ \A j \in 1..Len(limited) : limited[j] # candidates[k]

\* ---------------------------------------------------------------- C4
\* Where the pinned item sits: index 2 (the third entry) when the organic
\* queue has at least 2 items, the last entry otherwise.
PinnedPlaced ==
    IF Len(limited) >= 2
    THEN Len(final_queue) >= 3 /\ final_queue[3] = single_post
    ELSE final_queue # <<>> /\ final_queue[Len(final_queue)] = single_post

\* C4 as stated: for every total_cap, a fetched and valid pinned item is in
\* the final queue at its place.
C4_PinnedAlwaysPlaced == (Built /\ single_post # NoPost) => PinnedPlaced

\* C4, amended: for every total_cap of at least 1, a fetched and valid pinned
\* item is in the final queue at its place; with total_cap 0 the queue is empty.
C4_PinnedPlacedWhenCapPositive ==
    (Built /\ single_post # NoPost) =>
        IF cfg.max_total >= 1 THEN PinnedPlaced ELSE final_queue = <<>>

\* The pinned item third of a queue of four.
C4_Witness ==
    /\ Built /\ single_post # NoPost
    /\ Len(limited) >= 3
    /\ final_queue[3] = single_post
    /\ final_queue[4] # single_post

\* ---------------------------------------------------------------- C5
\* C5 as stated: the pinned item's canonical identifier is never among the
\* processed identifiers, in memory or on disk.
C5_PinnedNeverProcessed ==
    PinnedConfigured =>
        /\ PinUri \notin reposted_uris
        /\ PinUri \notin SeqToSet(disk.reposted_uris)

\* A turn of the execution loop (not the process being killed in it).
LoopTurn == pc = "exec" /\ i' = i + 1

\* ---------------------------------------------------------------- C6
\* The case of C6: a completed run whose configured pinned reference resolved
\* and whose single-item fetch returned nothing.
PinnedNotFound == Completed /\ PinnedConfigured /\ fetched = "notfound"

\* C6 as stated: the final queue is the organic queue, as long as the caps
\* admit with no slot kept for the missing pinned item, and the persisted
\* handle is empty.
C6_NoReservedSlotEmptyHandle ==
    PinnedNotFound =>
        /\ final_queue = limited
        /\ Len(final_queue) = Len(Admitted(cfg.max_total))
        /\ disk.single_repost_record_uri = NoUri

\* C6, amended: the final queue is the organic queue, built with the slot
\* still reserved (at most total_cap - 1 entries), and the run stores no new
\* handle for the missing item: unless an organic entry carrying the pinned
\* identifier was in the queue, the persisted handle is the one the
\* retraction step left (empty, or the old handle when retraction failed).
C6_OrganicQueueSlotReserved ==
    PinnedNotFound =>
        /\ final_queue = limited
        /\ Len(final_queue) = Len(Admitted(Max(0, cfg.max_total - 1)))
        /\ (\A k \in 1..Len(final_queue) : final_queue[k].uri # single_post_uri) =>
               disk.single_repost_record_uri =
                   IF retracted = "failed" THEN state.single_repost_record_uri ELSE NoUri

\* Pinned item not found, more candidates than the queue took, the retraction
\* of the old handle failed and the old handle was persisted again.
C6_Witness ==
    /\ PinnedNotFound
    /\ retracted = "failed"
    /\ final_queue # <<>>
    /\ Len(Admitted(cfg.max_total)) > Len(final_queue)
    /\ disk.single_repost_record_uri = state.single_repost_record_uri

\* ---------------------------------------------------------------- C7
\* C7: state.json changes only by the replacement at the end of a run, after
\* the last queue item was attempted, once per run, to the run's complete
\* document; a run killed earlier leaves it as it was, and it never holds a
\* partly written document.
C7_StateWrittenOnceAtomically ==
    [][/\ disk' # disk =>
              /\ pc = "replace"
              /\ i > Len(final_queue)
              /\ writes = 0
              /\ disk' = NewState(state, newly_reposted, single_repost_record_uri, end_ts)
       /\ disk'.status # "partial"
       /\ writes' <= 1
       /\ (pc # "idle" /\ pc' = "idle" /\ exit' = "ok") => writes' = 1]_vars

\* A second run killed while it wrote the temporary file: state.json is the
\* document of the first run.
C7_Witness ==
    /\ run = 2 /\ pc = "idle" /\ exit = "killed"
    /\ tmpfile.status = "stale"
    /\ disk.status = "ok"
    /\ disk.last_run_iso = ts_to_iso(ClockStart + 1)
    /\ disk.reposted_uris # <<>>

\* ---------------------------------------------------------------- C8
\* C8 as stated: with no pinned reference configured no slot is reserved, so
\* the organic queue reaches total_cap when the per-author cap admits at least
\* total_cap candidates.
C8_NoReservationWithoutPinned ==
    (Built /\ ~PinnedConfigured /\ Len(Admitted(Len(candidates))) >= cfg.max_total) =>
        Len(limited) = cfg.max_total

\* ---------------------------------------------------------------- C9
\* C9 as stated, its last part: in a run that loaded a handle, a successful
\* publish of the configured pinned post that returned a record replaces the
\* handle held by that record.
C9_PinnedPublishReplacesHandle ==
    [][(/\ LoopTurn
        /\ state.single_repost_record_uri # NoUri
        /\ PinnedConfigured
        /\ final_queue[i].uri = PinUri
        /\ repost_result' = "created") =>
           single_repost_record_uri' = RepostRecord(run, i)]_vars

\* --------------------------------------------------------------- C10
\* C10 as stated: after a successful login no failure of an external call
\* ends the run.
C10_NoHaltAfterLogin == exit # "exception"

\* --------------------------------------------------------------- C11
\* C11 as stated: no two entries of the final queue carry the same canonical
\* identifier, so no identifier is submitted to the publish action twice in
\* one run.
C11_NoDuplicateIdentifiers ==
    Built => \A j \in 1..Len(final_queue) : \A k \in 1..Len(final_queue) :
                 j # k => final_queue[j].uri # final_queue[k].uri

====
